---- MODULE Spec2Model ----
(***************************************************************************)
(* Model of the Go+ load pipeline (load.go): LoadDir, LoadFiles, the       *)
(* notated-error reconciliation (ignNotatedErrs / isNotatedErr) and the    *)
(* post-load hook (afterLoad / checkGopDeps).                              *)
(***************************************************************************)
EXTENDS Integers, Sequences, FiniteSets, TLC

(***************************************************************************)
(* Bounds of the model.                                                    *)
(***************************************************************************)
\* longest errors.List the compiler backend reports
MaxErrs == 2
\* most generated files of one compiled package
MaxGenFiles == 2

(***************************************************************************)
(* Source text.  A text is a sequence of one-character strings; offsets    *)
(* are 0-based as in Go, so offset o is element o+1 of the sequence.       *)
(***************************************************************************)
NL == "\n"
Slashes == <<"/", "/">>
Marker == <<"c", "o", "m", "p", "i", "l", "e", " ", "e", "r", "r", "o", "r", ":">>

\* text[start:end]
Slice(text, start, end) == SubSeq(text, start + 1, end)

\* strings.HasSuffix(s, suffix)
HasSuffix(s, suffix) ==
    /\ Len(s) >= Len(suffix)
    /\ SubSeq(s, Len(s) - Len(suffix) + 1, Len(s)) = suffix

\* whether sub occurs in text at 0-based offset i
OccursAt(text, sub, i) ==
    /\ i + Len(sub) <= Len(text)
    /\ SubSeq(text, i + 1, i + Len(sub)) = sub

\* strings.Index(text, sub): first offset of sub in text, -1 when absent
Index(text, sub) ==
    LET hits == {i \in 0..Len(text) : OccursAt(text, sub, i)}
    IN  IF hits = {} THEN -1
        ELSE CHOOSE i \in hits : \A j \in hits : i <= j

\* strings.Contains(text, sub)
Contains(text, sub) == Index(text, sub) >= 0

(***************************************************************************)
(* Package names and the sources of the directory.                         *)
(***************************************************************************)
TestSuffix == <<"_", "t", "e", "s", "t">>
NameA == <<"a">>
NameB == <<"b">>
NameATest == NameA \o TestSuffix
NameBTest == NameB \o TestSuffix
PkgNames == {NameA, NameB, NameATest, NameBTest}

\* a.gop: a notated line, a plain line, a line whose marker precedes the
\* comment, and a notated last line that has no newline
CodeA ==
    (<<"x">> \o Slashes \o Marker \o <<NL>>)
    \o <<"y", NL>>
    \o (Marker \o Slashes \o <<NL>>)
    \o (<<"z">> \o Slashes \o <<"q">> \o Slashes \o Marker)
\* b.gop: one notated line
CodeB == <<"w">> \o Slashes \o Marker \o <<NL>>
\* a_test.gop: a notated line and a comment without the marker
CodeATest ==
    (<<"t">> \o Slashes \o <<" ">> \o Marker \o <<NL>>)
    \o (<<"u">> \o Slashes \o <<"n", NL>>)
\* b_test.gop: a marker with no comment
CodeBTest == Marker \o <<NL>>

FileNames == {"a.gop", "b.gop", "a_test.gop", "b_test.gop"}

\* ast.File.Code of every source file
Code(fname) ==
    CASE fname = "a.gop" -> CodeA
      [] fname = "b.gop" -> CodeB
      [] fname = "a_test.gop" -> CodeATest
      [] fname = "b_test.gop" -> CodeBTest

\* the file a package of the given name is parsed from
FileOf(name) ==
    CASE name = NameA -> "a.gop"
      [] name = NameB -> "b.gop"
      [] name = NameATest -> "a_test.gop"
      [] name = NameBTest -> "b_test.gop"

(***************************************************************************)
(* token.FileSet: files are registered in order; file i has base           *)
(* 1 + sum of (size + 1) of the files before it.                           *)
(***************************************************************************)
NoPos == 0
FsetOrder == <<"a.gop", "b.gop", "a_test.gop", "b_test.gop">>

Size(fname) == Len(Code(fname))

RECURSIVE BaseAt(_)
BaseAt(i) == IF i = 1 THEN 1 ELSE BaseAt(i - 1) + Size(FsetOrder[i - 1]) + 1

Base(fname) == BaseAt(CHOOSE i \in 1..Len(FsetOrder) : FsetOrder[i] = fname)

\* fset.File(pos): the file whose range [base, base+size] holds pos; "" is nil
FsetFile(pos) ==
    IF pos = NoPos THEN ""
    ELSE LET fs == {f \in FileNames : Base(f) <= pos /\ pos <= Base(f) + Size(f)}
         IN  IF fs = {} THEN "" ELSE CHOOSE f \in fs : TRUE

\* token.Lines(f): the line-start offsets, as the scanner records them
\* (offset 0, and the offset after each newline that is inside the file)
LineStarts(fname) ==
    {0} \cup {o + 1 : o \in {k \in 0..(Size(fname) - 1) :
                               Code(fname)[k + 1] = NL /\ k + 1 < Size(fname)}}

\* the sorted table lines[0..n-1] as a sequence
Lines(fname) ==
    LET S == LineStarts(fname)
    IN  [i \in 1..Cardinality(S) |->
            CHOOSE o \in S : Cardinality({p \in S : p < o}) = i - 1]

\* f.Line(pos): 1-based line of pos
Line(fname, pos) ==
    LET off == pos - Base(fname)
    IN  Cardinality({o \in LineStarts(fname) : o <= off})

(***************************************************************************)
(* Errors.                                                                 *)
(***************************************************************************)
Nil == [tag |-> "nil"]
ErrNotFound == [tag |-> "sentinel", name |-> "ErrNotFound"]
ErrIgnoreNotated == [tag |-> "sentinel", name |-> "ErrIgnoreNotated"]
ErrMultiPackges == [tag |-> "sentinel", name |-> "ErrMultiPackges"]
ErrMultiTestPackges == [tag |-> "sentinel", name |-> "ErrMultiTestPackges"]

ErrKinds == {"CodeError", "MatchError", "ImportError", "Other"}

SingleErr(kind, pos) == [tag |-> "single", kind |-> kind, pos |-> pos]
ListErr(es) == [tag |-> "list", errs |-> es]

\* ErrorPos(err)
ErrorPos(err) ==
    IF err.tag = "single" /\ err.kind \in {"CodeError", "MatchError", "ImportError"}
    THEN err.pos
    ELSE NoPos

\* an ast.Package: its name and the names of its files (the keys of pkg.Files)
AstPkg(name, files) == [name |-> name, files |-> files]

isNotatedErr_NoPkgCheck(err, pkg) ==
    LET pos == ErrorPos(err)
        f == FsetFile(pos)
    IN  IF f = "" THEN FALSE
        ELSE LET lines == Lines(f)
                 i == Line(f, pos) - 1
                 start == lines[i + 1]
                 end == IF i + 1 < Len(lines) THEN lines[i + 2] ELSE Size(f)
                 text == Slice(Code(f), start, end)
                 commentOff == Index(text, Slashes)
             IN  IF commentOff < 0 THEN FALSE
                 ELSE Contains(Slice(text, commentOff + 2, Len(text)), Marker)

\* isNotatedErr(err, pkg, fset)
isNotatedErr(err, pkg) ==
    LET pos == ErrorPos(err)
        f == FsetFile(pos)
    IN  IF f = "" THEN FALSE
        ELSE IF f \notin pkg.files THEN FALSE
        ELSE LET lines == Lines(f)
                 i == Line(f, pos) - 1
                 start == lines[i + 1]
                 end == IF i + 1 < Len(lines) THEN lines[i + 2] ELSE Size(f)
                 text == Slice(Code(f), start, end)
                 commentOff == Index(text, Slashes)
             IN  IF commentOff < 0 THEN FALSE
                 ELSE Contains(Slice(text, commentOff + 2, Len(text)), Marker)

\* the loop of ignNotatedErrs over an errors.List: ret collects what is kept
RECURSIVE filterList(_, _, _)
filterList(v, pkg, ret) ==
    IF v = <<>> THEN ret
    ELSE IF isNotatedErr(Head(v), pkg)
         THEN filterList(Tail(v), pkg, ret)
         ELSE filterList(Tail(v), pkg, Append(ret, Head(v)))

ignNotatedErrs_KeepEmpty(err, pkg) ==
    IF err.tag = "list"
    THEN ListErr(filterList(err.errs, pkg, <<>>))
    ELSE IF isNotatedErr(err, pkg) THEN ErrIgnoreNotated ELSE err

\* ignNotatedErrs(err, pkg, fset)
ignNotatedErrs(err, pkg) ==
    IF err.tag = "list"
    THEN LET ret == filterList(err.errs, pkg, <<>>)
         IN  IF Len(ret) = 0 THEN ErrIgnoreNotated ELSE ListErr(ret)
    ELSE IF isNotatedErr(err, pkg) THEN ErrIgnoreNotated ELSE err

(***************************************************************************)
(* Compiled packages and the dependency flags of their files.              *)
(***************************************************************************)
\* file.CheckGopDeps(pkg) of one generated file
DepFlags == {0, 1, 2}

SeqsUpTo(S, lo, hi) == UNION {[1..n -> S] : n \in lo..hi}

GoxPkg(deps) == [tag |-> "pkg", deps |-> deps]
CompiledPkgs == {GoxPkg(d) : d \in SeqsUpTo(DepFlags, 1, MaxGenFiles)}

\* x | y on non-negative ints
RECURSIVE BitOr(_, _)
BitOr(x, y) ==
    IF x = 0 THEN y
    ELSE IF y = 0 THEN x
    ELSE (IF x % 2 = 1 \/ y % 2 = 1 THEN 1 ELSE 0) + 2 * BitOr(x \div 2, y \div 2)

RECURSIVE OrAll(_)
OrAll(deps) == IF deps = <<>> THEN 0 ELSE BitOr(Head(deps), OrAll(Tail(deps)))

\* checkGopDeps(pkg): pkg.ForEachFile ORs the flags of every file
checkGopDeps(pkg) == OrAll(pkg.deps)

(***************************************************************************)
(* Outcomes of cl.NewPackage.                                              *)
(***************************************************************************)
\* position of the first byte of 1-based line i of a file
LinePos(fname, i) == Base(fname) + Lines(fname)[i]

CompileErrElems ==
    { SingleErr("CodeError", LinePos("a.gop", 1)),
      SingleErr("CodeError", LinePos("a.gop", 2)),
      SingleErr("MatchError", LinePos("a_test.gop", 1)) }

CompileErrs ==
    CompileErrElems \cup {ListErr(es) : es \in SeqsUpTo(CompileErrElems, 1, MaxErrs)}

\* (p, err) as cl.NewPackage returns it: a package and nil, or an error with
\* either no package or the partially built one
NewPackageResults ==
    {[p |-> p, err |-> Nil] : p \in CompiledPkgs}
    \cup {[p |-> p, err |-> e] : p \in {Nil, GoxPkg(<<1>>)}, e \in CompileErrs}

(***************************************************************************)
(* Inputs of a load call.                                                  *)
(***************************************************************************)
gopMod == "github.com/goplus/gop"

\* the resolved module: Go+ itself, a module with a go.mod, gopmod.Default
Mods ==
    { [path |-> gopMod, hasModfile |-> TRUE],
      [path |-> "example.com/m", hasModfile |-> TRUE],
      [path |-> "", hasModfile |-> FALSE] }

Configs ==
    [IgnoreNotatedError : BOOLEAN, DontUpdateGoMod : BOOLEAN, GopDeps : BOOLEAN]

\* parse results: package name -> ast.Package.  A production package may
\* have no Go+ files (len(pkg.Files) == 0)
ParseResults ==
    UNION { { [n \in D |-> AstPkg(n, IF n \in E THEN {} ELSE {FileOf(n)})] :
                E \in SUBSET {n \in D : ~HasSuffix(n, TestSuffix)} } :
            D \in SUBSET PkgNames }

VARIABLES
    api,        \* "LoadDir" or "LoadFiles"
    conf,       \* the Config of the call
    mod,        \* conf.Mod at the entry (Nil when it is nil), then the
                \* resolved module
    genTestPkg, \* LoadDir's genTestPkg argument
    parseErr,   \* whether the parser fails
    pkgs,       \* the parser's result
    pc,         \* where the call is
    todo,       \* package names the range loop has not visited yet
    pkgTest,    \* LoadDir's pkgTest: Nil or the name of the test package
    out, test, err, \* the named results
    gopDeps,    \* *conf.GopDeps
    log,        \* what the call did: compiles, hook, slot writes, saves
    round,      \* 1 in the first load of the directory, 2 in the second
    memo,       \* package name -> what cl.NewPackage returned for it
    prev,       \* what the first load returned and did, once it is over
    ninput, npkg, nresult, npc \* the reconciliation on its own

vars == <<api, conf, mod, genTestPkg, parseErr, pkgs, pc, todo, pkgTest,
          out, test, err, gopDeps, log, round, memo, prev,
          ninput, npkg, nresult, npc>>

callVars == <<api, conf, mod, genTestPkg, parseErr, pkgs, round, prev>>
notatedVars == <<ninput, npkg, nresult, npc>>

\* one entry of the log: a compile of package arg that returned (p, e), the
\* entry of afterLoad, a write of arg to *conf.GopDeps, or a
\* mod.SaveWithGopMod(gop, arg) that returned e
Event(op, arg, p, e) == [op |-> op, arg |-> arg, p |-> p, err |-> e]
SaveError == [tag |-> "save"]

ParseError == [tag |-> "parse"]
\* errors.NewWith(err, ...)
NewWith(e) == [tag |-> "wrapped", cause |-> e]

EmptyMap == [n \in {} |-> AstPkg(n, {})]

\* what gopmod.Load and mod.ImportClasses fail with
GopmodLoadError == [tag |-> "gopmod.Load"]
ImportClassesError == [tag |-> "ImportClasses"]

\* LoadMod(dir), lines 151-165: the module of the directory's go.mod, or
\* gopmod.Default when there is none, with the error of mod.ImportClasses;
\* no module and the wrapped error when gopmod.Load fails otherwise
LoadModResults ==
    {[mod |-> m, err |-> Nil] : m \in Mods}
    \cup {[mod |-> m, err |-> NewWith(ImportClassesError)] : m \in Mods}
    \cup {[mod |-> Nil, err |-> NewWith(GopmodLoadError)]}

\* the directory does not change between two loads: a LoadMod that failed
\* fails again with the same error
LoadMod ==
    IF round = 1 THEN LoadModResults
    ELSE {r \in LoadModResults : r.err # Nil /\ NewWith(r.err) = prev.err}

\* the directory does not change between two loads: compiling a package
\* again gives what it gave before
NewPackage(name) ==
    IF name \in DOMAIN memo THEN {memo[name]} ELSE NewPackageResults

Remember(name, r) == [n \in DOMAIN memo \cup {name} |-> IF n = name THEN r ELSE memo[n]]

NoMemo == [n \in {} |-> [p |-> Nil, err |-> Nil]]
NoPrev == [pc |-> "none", out |-> Nil, test |-> Nil, err |-> Nil, log |-> <<>>]

Init ==
    /\ api \in {"LoadDir", "LoadFiles"}
    /\ conf \in Configs
    /\ mod \in Mods \cup {Nil}
    /\ genTestPkg \in (IF api = "LoadDir" THEN BOOLEAN ELSE {FALSE})
    /\ \/ parseErr = TRUE /\ pkgs = EmptyMap
       \/ parseErr = FALSE /\ pkgs \in ParseResults
    /\ pc = "entry"
    /\ todo = {}
    /\ pkgTest = Nil
    /\ out = Nil /\ test = Nil /\ err = Nil
    /\ gopDeps = 0
    /\ log = <<>>
    /\ round = 1 /\ memo = NoMemo /\ prev = NoPrev
    /\ ninput = Nil /\ npkg = AstPkg(NameA, {}) /\ nresult = Nil /\ npc = "off"

(***************************************************************************)
(* LoadDir.                                                                *)
(***************************************************************************)
\* return o, t, e
Return(o, t, e) ==
    /\ out' = o /\ test' = t /\ err' = e
    /\ pc' = "done"

\* lines 192-198 of LoadDir and 313-319 of LoadFiles: conf.Mod, or the
\* module LoadMod(dir) finds; the call returns LoadMod's error, wrapped
ResolveMod ==
    /\ pc = "entry"
    /\ IF mod # Nil
       THEN pc' = "start" /\ UNCHANGED <<mod, out, test, err>>
       ELSE \E r \in LoadMod :
                IF r.err # Nil
                THEN Return(out, test, NewWith(r.err)) /\ mod' = mod
                ELSE pc' = "start" /\ mod' = r.mod /\ UNCHANGED <<out, test, err>>
    /\ UNCHANGED <<api, conf, genTestPkg, parseErr, pkgs, round, prev,
                   todo, pkgTest, gopDeps, log, memo, notatedVars>>

\* lines 204-214: the parser's result
ParseDirEx ==
    /\ api = "LoadDir" /\ pc = "start"
    /\ IF parseErr
       THEN Return(out, test, ParseError) /\ todo' = todo
       ELSE IF Cardinality(DOMAIN pkgs) = 0
            THEN Return(Nil, Nil, ErrNotFound) /\ todo' = todo
            ELSE /\ pc' = "range" /\ todo' = DOMAIN pkgs
                 /\ UNCHANGED <<out, test, err>>
    /\ UNCHANGED <<callVars, pkgTest, gopDeps, log, memo, notatedVars>>

\* lines 235-241: one iteration of the range loop on a name ending in _test
RangeTestPkg(name) ==
    /\ api = "LoadDir" /\ pc = "range" /\ name \in todo
    /\ HasSuffix(name, TestSuffix)
    /\ IF pkgTest # Nil
       THEN Return(Nil, Nil, ErrMultiTestPackges) /\ UNCHANGED <<pkgTest, todo>>
       ELSE /\ pkgTest' = name
            /\ todo' = todo \ {name}
            /\ UNCHANGED <<out, test, err, pc>>
    /\ UNCHANGED <<callVars, gopDeps, log, memo, notatedVars>>

NoSourceFiles_Never(pkg) == FALSE

\* line 245: len(pkg.Files) == 0
NoSourceFiles(pkg) == Cardinality(pkg.files) = 0

\* lines 242-257: one iteration of the range loop on a production name
RangeProdPkg(name) ==
    /\ api = "LoadDir" /\ pc = "range" /\ name \in todo
    /\ ~HasSuffix(name, TestSuffix)
    /\ IF out # Nil
       THEN Return(Nil, Nil, ErrMultiPackges) /\ UNCHANGED <<todo, log, memo>>
       ELSE IF NoSourceFiles(pkgs[name])
       THEN /\ todo' = todo \ {name}
            /\ UNCHANGED <<out, test, err, pc, log, memo>>
       ELSE \E r \in NewPackage(name) :
                /\ log' = Append(log, Event("compile", name, r.p, r.err))
                /\ memo' = Remember(name, r)
                /\ IF r.err # Nil
                   THEN /\ Return(r.p, test,
                                  IF conf.IgnoreNotatedError
                                  THEN ignNotatedErrs(r.err, pkgs[name])
                                  ELSE r.err)
                        /\ todo' = todo
                   ELSE /\ out' = r.p /\ err' = Nil
                        /\ todo' = todo \ {name}
                        /\ UNCHANGED <<test, pc>>
    /\ UNCHANGED <<callVars, pkgTest, gopDeps, notatedVars>>

\* lines 259-261: the loop is over
RangeEnd ==
    /\ api = "LoadDir" /\ pc = "range" /\ todo = {}
    /\ IF out = Nil
       THEN Return(Nil, Nil, ErrNotFound)
       ELSE pc' = "test" /\ UNCHANGED <<out, test, err>>
    /\ UNCHANGED <<callVars, todo, pkgTest, gopDeps, log, memo, notatedVars>>

WantTest_NoGenCheck(gen, pt) == pt # Nil

\* line 262: genTestPkg && pkgTest != nil
WantTest(gen, pt) == gen /\ pt # Nil

CompileTest_AbortsOnError ==
    /\ api = "LoadDir" /\ pc = "test"
    /\ IF WantTest(genTestPkg, pkgTest)
       THEN \E r \in NewPackage(pkgTest) :
                /\ log' = Append(log, Event("compile", pkgTest, r.p, r.err))
                /\ memo' = Remember(pkgTest, r)
                /\ IF r.err # Nil
                   THEN Return(Nil, Nil, r.err)
                   ELSE /\ test' = r.p /\ err' = r.err /\ out' = out
                        /\ pc' = "afterLoad"
       ELSE pc' = "afterLoad" /\ UNCHANGED <<out, test, err, log, memo>>
    /\ UNCHANGED <<callVars, todo, pkgTest, gopDeps, notatedVars>>

\* lines 262-264: the test package
CompileTest ==
    /\ api = "LoadDir" /\ pc = "test"
    /\ IF WantTest(genTestPkg, pkgTest)
       THEN \E r \in NewPackage(pkgTest) :
                /\ test' = r.p /\ err' = r.err
                /\ log' = Append(log, Event("compile", pkgTest, r.p, r.err))
                /\ memo' = Remember(pkgTest, r)
       ELSE UNCHANGED <<test, err, log, memo>>
    /\ pc' = "afterLoad"
    /\ UNCHANGED <<callVars, todo, pkgTest, out, gopDeps, notatedVars>>

(***************************************************************************)
(* LoadFiles.                                                              *)
(***************************************************************************)
\* lines 325-337: the parser's result
ParseEntries ==
    /\ api = "LoadFiles" /\ pc = "start"
    /\ IF parseErr
       THEN Return(out, test, NewWith(ParseError))
       ELSE IF Cardinality(DOMAIN pkgs) # 1
            THEN Return(out, test, NewWith(ErrMultiPackges))
            ELSE pc' = "compile" /\ UNCHANGED <<out, test, err>>
    /\ UNCHANGED <<callVars, todo, pkgTest, gopDeps, log, memo, notatedVars>>

\* lines 342-361: the loop body runs once, on the only package
FilesCompile ==
    /\ api = "LoadFiles" /\ pc = "compile"
    /\ \E name \in DOMAIN pkgs : \E r \in NewPackage(name) :
           /\ out' = r.p
           /\ memo' = Remember(name, r)
           /\ err' = IF r.err # Nil /\ conf.IgnoreNotatedError
                     THEN ignNotatedErrs(r.err, pkgs[name])
                     ELSE r.err
           /\ log' = Append(log, Event("compile", name, r.p, r.err))
    /\ pc' = "afterLoad"
    /\ UNCHANGED <<callVars, todo, pkgTest, test, gopDeps, notatedVars>>

(***************************************************************************)
(* afterLoad.  mod.SaveWithGopMod may fail; its result is not looked at.   *)
(* checkGopDeps on a nil package dereferences nil: the call panics.        *)
(***************************************************************************)
IsGopItself_Never(m) == FALSE

\* line 270: mod.Path() == gopMod
IsGopItself(m) == m.path = gopMod

UpdateMod_IgnoresDont(m, c) == m.hasModfile

\* line 273
UpdateMod(m, c) == ~c.DontUpdateGoMod /\ m.hasModfile

SaveFlags_ProdOnly(o, t) == checkGopDeps(o)

\* lines 275-282: the flags written to *conf.GopDeps and those saved
SlotFlags(o, t) == checkGopDeps(o)
SaveFlags(o, t) ==
    IF t # Nil THEN BitOr(checkGopDeps(o), checkGopDeps(t)) ELSE checkGopDeps(o)

\* lines 269-288
afterLoad(m, o, t, c) ==
    LET entered == Append(log, Event("afterLoad", 0, Nil, Nil))
    IN  IF IsGopItself(m)
        THEN pc' = "done" /\ log' = entered /\ UNCHANGED gopDeps
        ELSE IF UpdateMod(m, c) \/ c.GopDeps
        THEN IF o = Nil
             THEN pc' = "panic" /\ log' = entered /\ UNCHANGED gopDeps
             ELSE LET written ==
                          IF c.GopDeps
                          THEN Append(entered, Event("setGopDeps", SlotFlags(o, t), Nil, Nil))
                          ELSE entered
                  IN  /\ pc' = "done"
                      /\ gopDeps' = IF c.GopDeps THEN SlotFlags(o, t) ELSE gopDeps
                      /\ IF UpdateMod(m, c) /\ SaveFlags(o, t) # 0
                         THEN \E e \in {Nil, SaveError} :
                                  log' = Append(written,
                                                Event("save", SaveFlags(o, t), Nil, e))
                         ELSE log' = written
        ELSE pc' = "done" /\ log' = entered /\ UNCHANGED gopDeps

\* line 265 and line 362
AfterLoad ==
    /\ pc = "afterLoad"
    /\ afterLoad(mod, out, IF api = "LoadDir" THEN test ELSE Nil, conf)
    /\ UNCHANGED <<callVars, todo, pkgTest, out, test, err, memo, notatedVars>>

Next ==
    \/ ResolveMod
    \/ ParseDirEx
    \/ \E name \in PkgNames : RangeTestPkg(name)
    \/ \E name \in PkgNames : RangeProdPkg(name)
    \/ RangeEnd
    \/ CompileTest
    \/ ParseEntries
    \/ FilesCompile
    \/ AfterLoad

Spec == Init /\ [][Next]_vars

(***************************************************************************)
(* Two loads in a row of the same directory with the same configuration.   *)
(* The first call's result and log are kept in prev; the second call       *)
(* starts from the function entry, the caller's *conf.GopDeps keeps what   *)
(* the first call wrote, and the packages compile as they did (memo).      *)
(* The module is resolved as it was: mod keeps the module of the first     *)
(* call, which is conf.Mod or what LoadMod finds again, and stays Nil when *)
(* LoadMod failed, so that LoadMod is called and fails again.              *)
(***************************************************************************)
Reload ==
    /\ pc = "done" /\ round = 1
    /\ round' = 2
    /\ prev' = [pc |-> pc, out |-> out, test |-> test, err |-> err, log |-> log]
    /\ pc' = "entry"
    /\ todo' = {}
    /\ pkgTest' = Nil
    /\ out' = Nil /\ test' = Nil /\ err' = Nil
    /\ log' = <<>>
    /\ UNCHANGED <<api, conf, mod, genTestPkg, parseErr, pkgs, gopDeps, memo,
                   notatedVars>>

\* the two calls are made without reconciliation: what is compared between
\* them is what the compiler returned
InitTwice == Init /\ ~conf.IgnoreNotatedError

NextTwice == Next \/ Reload

SpecTwice == InitTwice /\ [][NextTwice]_vars

(***************************************************************************)
(* The reconciliation on its own: ignNotatedErrs applied to an error and   *)
(* an AST package, over every error kind and a position on every line.     *)
(***************************************************************************)
NotatedPositions ==
    {NoPos, Base("b_test.gop") + Size("b_test.gop") + 1}
    \cup {LinePos("a.gop", i) : i \in 1..Len(Lines("a.gop"))}
    \cup {Base("a.gop") + Size("a.gop"), LinePos("a_test.gop", 1)}

NotatedErrElems == {SingleErr(k, p) : k \in ErrKinds, p \in NotatedPositions}

NotatedInputs ==
    NotatedErrElems \cup {ListErr(es) : es \in SeqsUpTo(NotatedErrElems, 0, MaxErrs)}

\* the errors isNotatedErr is asked about: every kind at every position from
\* NoPos to one past the last file of the file set
ClassifyInputs ==
    {SingleErr(k, p) : k \in ErrKinds,
                       p \in NoPos..(Base("b_test.gop") + Size("b_test.gop") + 1)}

NotatedPkgs ==
    {AstPkg(NameA, {"a.gop"}), AstPkg(NameATest, {"a_test.gop"}), AstPkg(NameB, {})}

InitNotated ==
    /\ api = "LoadDir"
    /\ conf = [IgnoreNotatedError |-> TRUE, DontUpdateGoMod |-> TRUE, GopDeps |-> FALSE]
    /\ mod = [path |-> "", hasModfile |-> FALSE]
    /\ genTestPkg = FALSE
    /\ parseErr = FALSE /\ pkgs = EmptyMap
    /\ pc = "off"
    /\ todo = {}
    /\ pkgTest = Nil
    /\ out = Nil /\ test = Nil /\ err = Nil
    /\ gopDeps = 0
    /\ log = <<>>
    /\ round = 1 /\ memo = NoMemo /\ prev = NoPrev
    /\ ninput \in NotatedInputs \cup ClassifyInputs
    /\ npkg \in NotatedPkgs
    /\ nresult = Nil
    /\ npc = "input"

Reconcile ==
    /\ npc = "input"
    /\ nresult' = ignNotatedErrs(ninput, npkg)
    /\ npc' = "done"
    /\ UNCHANGED <<callVars, pc, todo, pkgTest, out, test, err, gopDeps, log,
                   memo, ninput, npkg>>

\* isNotatedErr(err, pkg, fset) on one error
Classify ==
    /\ npc = "input" /\ ninput.tag = "single"
    /\ nresult' = [tag |-> "bool", val |-> isNotatedErr(ninput, npkg)]
    /\ npc' = "classified"
    /\ UNCHANGED <<callVars, pc, todo, pkgTest, out, test, err, gopDeps, log,
                   memo, ninput, npkg>>

NextNotated == Reconcile \/ Classify

SpecNotated == InitNotated /\ [][NextNotated]_vars

(***************************************************************************)
(* Properties.                                                             *)
(***************************************************************************)
Finished == pc \in {"done", "panic"}
Returned == pc = "done"

ProdNames(m) == {n \in DOMAIN m : ~HasSuffix(n, TestSuffix)}
TestNames(m) == {n \in DOMAIN m : HasSuffix(n, TestSuffix)}

\* the compiles of the call, in order
Compiles == SelectSeq(log, LAMBDA e : e.op = "compile")
IsTestCompile(e) == e.op = "compile" /\ HasSuffix(e.arg, TestSuffix)
IsProdCompile(e) == e.op = "compile" /\ ~HasSuffix(e.arg, TestSuffix)
HookRan == \E i \in DOMAIN log : log[i].op = "afterLoad"

ErrNotatedA == SingleErr("CodeError", LinePos("a.gop", 1))
ErrPlainA == SingleErr("CodeError", LinePos("a.gop", 2))
ErrNotatedATest == SingleErr("MatchError", LinePos("a_test.gop", 1))

\* C8: ignNotatedErrs on an error list returns the list of the elements that
\* are not notated, in their order, when there is one, and the sentinel
\* ErrIgnoreNotated (not nil) when none remains; a notated error followed by
\* a plain one yields the list of the plain one alone.
C8_ListFiltered ==
    (npc = "done" /\ ninput.tag = "list") =>
        LET kept == SelectSeq(ninput.errs, LAMBDA e : ~isNotatedErr(e, npkg))
        IN  /\ nresult # Nil
            /\ IF Len(kept) > 0
               THEN nresult = ListErr(kept)
               ELSE nresult = ErrIgnoreNotated
            /\ (ninput = ListErr(<<ErrNotatedA, ErrPlainA>>) /\ "a.gop" \in npkg.files)
                   => nresult = ListErr(<<ErrPlainA>>)

C8_Witness ==
    /\ npc = "done"
    /\ ninput = ListErr(<<ErrNotatedA, ErrPlainA>>)
    /\ npkg = AstPkg(NameA, {"a.gop"})
    /\ nresult = ListErr(<<ErrPlainA>>)

\* the parse result LoadDir works on
ModResolved == mod # Nil /\ pc # "entry"
DirParsed == api = "LoadDir" /\ ModResolved /\ ~parseErr

\* C1: LoadDir on a parse result with two distinct production package names
\* returns ErrMultiPackges, in every iteration order and for every compile
\* outcome (stated for production packages that have source files).
C1_MultiPackages ==
    ( /\ DirParsed /\ Finished
      /\ Cardinality(ProdNames(pkgs)) >= 2
      /\ \A n \in ProdNames(pkgs) : ~NoSourceFiles(pkgs[n]) )
    => (Returned /\ err = ErrMultiPackges)

\* C2: LoadDir on a parse result with two distinct test package names returns
\* ErrMultiTestPackges, in every iteration order and for every compile
\* outcome of the production package (stated for at most one production
\* package).
C2_MultiTestPackages ==
    ( /\ DirParsed /\ Finished
      /\ Cardinality(TestNames(pkgs)) >= 2
      /\ Cardinality(ProdNames(pkgs)) <= 1 )
    => (Returned /\ err = ErrMultiTestPackges)

\* C3: on a parse result made of one production package with files and one
\* without, LoadDir compiles the former and does not return ErrMultiPackges,
\* in every iteration order.
C3_EmptySkipped ==
    ( /\ DirParsed /\ Finished
      /\ TestNames(pkgs) = {}
      /\ Cardinality(ProdNames(pkgs)) = 2
      /\ Cardinality({n \in ProdNames(pkgs) : NoSourceFiles(pkgs[n])}) = 1 )
    => /\ Returned /\ err # ErrMultiPackges
       /\ \E i \in DOMAIN log :
              IsProdCompile(log[i]) /\ ~NoSourceFiles(pkgs[log[i].arg])

\* C4: when no production package of the parse result has a file and there
\* is at most one test package, LoadDir returns (nil, nil, ErrNotFound) and
\* has called neither the compiler nor afterLoad.
C4_NotFound ==
    ( /\ DirParsed /\ Finished
      /\ \A n \in ProdNames(pkgs) : Cardinality(pkgs[n].files) = 0
      /\ Cardinality(TestNames(pkgs)) <= 1 )
    => /\ Returned
       /\ out = Nil /\ test = Nil /\ err = ErrNotFound
       /\ log = <<>>

C4_Witness ==
    /\ DirParsed /\ Returned
    /\ DOMAIN pkgs = {NameA, NameB, NameATest}
    /\ pkgs[NameA].files = {} /\ pkgs[NameB].files = {}
    /\ err = ErrNotFound

\* C5: in LoadDir a test package is compiled only when genTestPkg is set, the
\* package was found and a production compile succeeded before it; after a
\* failed production compile LoadDir has returned and compiled nothing else.
C5_ProdBeforeTest ==
    api = "LoadDir" =>
        /\ \A i \in DOMAIN log :
               IsTestCompile(log[i]) =>
                   /\ genTestPkg
                   /\ log[i].arg \in DOMAIN pkgs
                   /\ \E j \in 1..(i - 1) : IsProdCompile(log[j]) /\ log[j].err = Nil
        /\ \A j \in DOMAIN log :
               (IsProdCompile(log[j]) /\ log[j].err # Nil) =>
                   /\ Returned
                   /\ j = Len(log)
                   /\ \A i \in DOMAIN log : ~IsTestCompile(log[i])

C5_Witness ==
    /\ api = "LoadDir" /\ Returned
    /\ Len(log) >= 2
    /\ IsProdCompile(log[1]) /\ log[1].err = Nil
    /\ IsTestCompile(log[2])

\* C6: when the test compile fails and IgnoreNotatedError is set, LoadDir
\* returns ignNotatedErrs of the compile error and the test AST package.
C6_TestErrReconciled ==
    (api = "LoadDir" /\ Finished /\ conf.IgnoreNotatedError) =>
        \A i \in DOMAIN log :
            (IsTestCompile(log[i]) /\ log[i].err # Nil) =>
                (Returned /\ err = ignNotatedErrs(log[i].err, pkgs[log[i].arg]))

\* C7: when the production compile succeeds and the test compile fails,
\* LoadDir returns the compiled production package and a non-nil error.
C7_ProdKeptOnTestFailure ==
    (api = "LoadDir" /\ Finished) =>
        \A j, i \in DOMAIN log :
            ( /\ IsProdCompile(log[j]) /\ log[j].err = Nil
              /\ IsTestCompile(log[i]) /\ log[i].err # Nil )
            => (Returned /\ out # Nil /\ out = log[j].p /\ err # Nil)

C7_Witness ==
    /\ api = "LoadDir" /\ Returned
    /\ Len(log) >= 2
    /\ IsProdCompile(log[1]) /\ log[1].err = Nil
    /\ IsTestCompile(log[2]) /\ log[2].err # Nil
    /\ out = log[1].p /\ err = log[2].err

\* C9: when the production compile fails with a single error, LoadDir and
\* LoadFiles return ErrIgnoreNotated if the error is notated and
\* IgnoreNotatedError is set, and the compile error itself otherwise.
C9_SingleError ==
    Finished =>
        \A i \in DOMAIN log :
            ( /\ log[i].op = "compile"
              /\ (api = "LoadFiles" \/ IsProdCompile(log[i]))
              /\ log[i].err.tag = "single" )
            => /\ Returned
               /\ err = IF /\ conf.IgnoreNotatedError
                           /\ isNotatedErr(log[i].err, pkgs[log[i].arg])
                        THEN ErrIgnoreNotated
                        ELSE log[i].err

\* C10: after a LoadDir in which both packages compile, with GopDeps
\* supplied, *conf.GopDeps is the OR of the flags of the production package
\* and of the test package (stated for a module other than Go+ itself).
C10_GopDepsBoth ==
    ( /\ api = "LoadDir" /\ Returned
      /\ conf.GopDeps /\ mod # Nil /\ mod.path # gopMod
      /\ err = Nil /\ out # Nil /\ test # Nil )
    => gopDeps = BitOr(checkGopDeps(out), checkGopDeps(test))

\* how many entries of the log are of the given kind
OpCount(op) == Len(SelectSeq(log, LAMBDA e : e.op = op))

\* the OR of the flags of the packages the call holds when the hook runs
FlagsOf(p) == IF p = Nil THEN 0 ELSE checkGopDeps(p)
CompiledFlags == BitOr(FlagsOf(out), FlagsOf(test))

\* C11 as stated: when the hook has run, mod.SaveWithGopMod was called if and
\* only if the module has a go.mod, DontUpdateGoMod is false and the OR of
\* the flags of the compiled packages is not 0; it is called at most once.
C11_PersistIff_Original ==
    /\ OpCount("save") <= 1
    /\ (Finished /\ HookRan) =>
           ( OpCount("save") = 1
             <=> (mod.hasModfile /\ ~conf.DontUpdateGoMod /\ CompiledFlags # 0) )

\* C11 amended: the same, for a module that is not Go+ itself; for Go+
\* itself mod.SaveWithGopMod is never called.
C11_PersistIff ==
    /\ OpCount("save") <= 1
    /\ (Finished /\ HookRan) =>
           ( OpCount("save") = 1
             <=> ( /\ mod.path # gopMod
                   /\ mod.hasModfile /\ ~conf.DontUpdateGoMod
                   /\ CompiledFlags # 0 ) )

C11_Witness ==
    /\ Returned /\ HookRan
    /\ OpCount("save") = 1
    /\ test # Nil /\ checkGopDeps(out) = 0 /\ checkGopDeps(test) # 0

\* C12: when mod.SaveWithGopMod fails, the load returns a non-nil error that
\* carries the failure (stated for a load whose compiles all succeed).
C12_SaveFailureReturned ==
    (Finished /\ \A k \in DOMAIN log : log[k].op = "compile" => log[k].err = Nil) =>
        \A i \in DOMAIN log :
            (log[i].op = "save" /\ log[i].err # Nil) =>
                /\ Returned
                /\ err # Nil
                /\ err \in {log[i].err, NewWith(log[i].err)}

\* C13: once a production compile has succeeded in LoadDir, afterLoad has run
\* when LoadDir returns, whatever it returns (stated for production packages
\* that have source files).
C13_HookAfterProdSuccess ==
    ( /\ api = "LoadDir" /\ Finished
      /\ \A n \in ProdNames(pkgs) : ~NoSourceFiles(pkgs[n]) ) =>
        \A j \in DOMAIN log :
            (IsProdCompile(log[j]) /\ log[j].err = Nil) => HookRan

\* the production compile of the call: LoadFiles compiles one package, of
\* any name
IsMainCompile(e) ==
    e.op = "compile" /\ (api = "LoadFiles" \/ ~HasSuffix(e.arg, TestSuffix))

\* C14: afterLoad runs, *conf.GopDeps is written and the manifest is saved
\* only after a production compile that succeeded and gave a package, in
\* LoadDir and in LoadFiles.
C14_HookOnlyAfterSuccess ==
    \A i \in DOMAIN log :
        log[i].op \in {"afterLoad", "setGopDeps", "save"} =>
            \E j \in 1..(i - 1) :
                IsMainCompile(log[j]) /\ log[j].err = Nil /\ log[j].p # Nil

(***************************************************************************)
(* Two loads of the same directory.                                        *)
(***************************************************************************)
SecondDone == round = 2 /\ Finished
PrevHookRan == \E i \in DOMAIN prev.log : prev.log[i].op = "afterLoad"
\* the flags of the mod.SaveWithGopMod calls of a log, in order
SavedFlags(l) ==
    LET saves == SelectSeq(l, LAMBDA e : e.op = "save")
    IN  [i \in DOMAIN saves |-> saves[i].arg]

\* the setting of C15: a directory load that reached afterLoad twice, with a
\* go.mod, DontUpdateGoMod false and non-zero flags of the compiled packages
TwiceWithFlags ==
    /\ api = "LoadDir" /\ SecondDone /\ HookRan /\ PrevHookRan
    /\ mod.hasModfile /\ ~conf.DontUpdateGoMod /\ mod.path # gopMod
    /\ CompiledFlags # 0
    /\ CompiledFlags = BitOr(FlagsOf(prev.out), FlagsOf(prev.test))

\* C15 as stated: the second load of an unchanged directory with a go.mod,
\* DontUpdateGoMod false and unchanged non-zero flags makes no call of
\* mod.SaveWithGopMod.
C15_NoSecondPersist_Original ==
    TwiceWithFlags => OpCount("save") = 0

\* C15 amended: the second load makes the call the first load made, once,
\* with the OR of the flags of the compiled packages.
C15_SecondPersistSame ==
    TwiceWithFlags =>
        /\ SavedFlags(log) = <<CompiledFlags>>
        /\ SavedFlags(log) = SavedFlags(prev.log)

C15_Witness ==
    /\ TwiceWithFlags
    /\ SavedFlags(prev.log) = <<2>> /\ SavedFlags(log) = <<2>>
    /\ checkGopDeps(out) = 0 /\ test # Nil

(***************************************************************************)
(* LoadFiles.                                                              *)
(***************************************************************************)
FilesParsed == api = "LoadFiles" /\ ModResolved /\ ~parseErr

\* what LoadFiles returns for the compile result (p, e) of package name
FilesErr(name, e) ==
    IF e # Nil /\ conf.IgnoreNotatedError THEN ignNotatedErrs(e, pkgs[name]) ELSE e

\* C16: with a number of packages other than one LoadFiles returns
\* ErrMultiPackges and compiles nothing; with exactly one package it compiles
\* it and returns what the compiler returned.
C16_FilesResult ==
    (FilesParsed /\ Finished) =>
        IF Cardinality(DOMAIN pkgs) # 1
        THEN Returned /\ err = NewWith(ErrMultiPackges) /\ OpCount("compile") = 0
        ELSE /\ OpCount("compile") = 1
             /\ \E i \in DOMAIN log :
                    /\ log[i].op = "compile" /\ log[i].arg \in DOMAIN pkgs
                    /\ Returned
                    /\ out = log[i].p
                    /\ err = FilesErr(log[i].arg, log[i].err)

(***************************************************************************)
(* The Go+ module itself.                                                  *)
(***************************************************************************)
\* C17: when mod.Path() is gopMod, afterLoad changes nothing: *conf.GopDeps
\* is not written and mod.SaveWithGopMod is not called, whatever the flags of
\* the compiled packages (and a nil package is not looked at).
C17_GopItselfUntouched ==
    (mod # Nil /\ mod.path = gopMod) =>
        /\ OpCount("setGopDeps") = 0
        /\ OpCount("save") = 0
        /\ gopDeps = 0
        /\ pc # "panic"

C17_Witness ==
    /\ mod # Nil /\ mod.path = gopMod /\ Returned /\ HookRan
    /\ conf.GopDeps /\ mod.hasModfile /\ ~conf.DontUpdateGoMod
    /\ out # Nil /\ checkGopDeps(out) # 0

(***************************************************************************)
(* isNotatedErr.                                                           *)
(***************************************************************************)
\* the physical line of file f that holds offset off runs from its start s
\* to the next line start, or to the end of the file
LineEnd(f, s) ==
    LET later == {t \in LineStarts(f) : t > s}
    IN  IF later = {} THEN Size(f)
        ELSE CHOOSE t \in later : \A u \in later : t <= u

\* a "//" at offset i and a "compile error:" at offset j after it, both
\* inside [s, e) of the code of f
CommentWithMarker(f, s, e) ==
    \E i \in s..e : \E j \in s..e :
        /\ i + Len(Slashes) <= j
        /\ j + Len(Marker) <= e
        /\ OccursAt(Code(f), Slashes, i)
        /\ OccursAt(Code(f), Marker, j)

\* the characterization of C18
Notated(e, pkg) ==
    /\ e.kind \in {"CodeError", "MatchError", "ImportError"}
    /\ e.pos # NoPos
    /\ \E f \in FileNames :
           /\ Base(f) <= e.pos /\ e.pos <= Base(f) + Size(f)
           /\ f \in pkg.files
           /\ \E s \in LineStarts(f) :
                  /\ s <= e.pos - Base(f)
                  /\ \A t \in LineStarts(f) : t <= e.pos - Base(f) => t <= s
                  /\ CommentWithMarker(f, s, LineEnd(f, s))

Classified == npc = "classified"

\* C18: isNotatedErr answers true exactly when the error's kind has a
\* position, the position is in a file of the file set, the file is a key of
\* pkg.Files, and the physical line of the position has a "//" followed on
\* that line by "compile error:"; an error of another kind, an error in a
\* file of another package, a marker before the "//" and a marker on
\* another line are not notated.
C18_NotatedIff ==
    Classified =>
        /\ nresult.val <=> Notated(ninput, npkg)
        /\ ninput.kind = "Other" => ~nresult.val
        /\ FsetFile(ninput.pos) \notin npkg.files => ~nresult.val
        /\ ninput.pos \in LinePos("a.gop", 2)..(LinePos("a.gop", 4) - 1) => ~nresult.val
        /\ FsetFile(ninput.pos) = "b_test.gop" => ~nresult.val

\* a notated error at the end of the last line of a.gop, which has no newline
C18_Witness ==
    /\ Classified /\ nresult.val
    /\ ninput.pos = Base("a.gop") + Size("a.gop")
    /\ "a.gop" \in npkg.files

(***************************************************************************)
(* The order of the range over the package map.                            *)
(***************************************************************************)
PrevCompiled == \E i \in DOMAIN prev.log : prev.log[i].op = "compile"

\* C19: two runs of LoadDir on the same parse result, with the same compile
\* outcomes, that differ only in the order in which the range yields the
\* packages return the same packages and error, and agree on whether the
\* compiler and afterLoad ran.
C19_OrderIndependent ==
    (api = "LoadDir" /\ SecondDone) =>
        /\ out = prev.out /\ test = prev.test /\ err = prev.err
        /\ (OpCount("compile") > 0) <=> PrevCompiled
        /\ HookRan <=> PrevHookRan

\* C20: when LoadDir returns ErrMultiPackges or ErrMultiTestPackges, it has
\* compiled nothing (stated for production packages that have source files).
C20_NoCompileWhenRejected ==
    ( /\ api = "LoadDir" /\ Returned
      /\ err \in {ErrMultiPackges, ErrMultiTestPackges}
      /\ \A n \in ProdNames(pkgs) : ~NoSourceFiles(pkgs[n]) ) =>
        OpCount("compile") = 0


====
